---- MODULE Spec2Model ----
(***************************************************************************)
(* A model of movie_recommender.py: the DataStore with its four indexes,   *)
(* the two file loaders, clear, and the analytics/recommendation queries.  *)
(*                                                                         *)
(* Conventions.                                                            *)
(*  - A file is a sequence of lines.  A line is the list of raw fields     *)
(*    that  _strip_inline_comment(raw).strip().split("|")  yields; a blank *)
(*    or comment-only line is <<"">>.                                      *)
(*  - Optional[T] is a sequence of length 0 (None) or 1 (a value).         *)
(*  - float averages are exact fractions [num, den] in lowest terms, so    *)
(*    two averages are equal as floats iff the records are equal.          *)
(*  - Where the code iterates a set or an index whose order the model does *)
(*    not track, a query is the SET of results over every iteration order. *)
(***************************************************************************)
EXTENDS Integers, Sequences, FiniteSets, TLC

\* ---------------------------------------------------------------- bounds
MaxMovieLines == 2
MaxRatingLines == 2

\* ---------------------------------------------------------------- inputs
Genres == {"Action", "Drama"}
Names == {"Alpha", "Bravo"}
Users == {"u1", "u2"}
MovieIds == {"m1"}
RatingTexts == {"4", "5"}

\* Python compares str by code point; these are the strings used as sort
\* keys, listed in that (ascending) order.
KeyOrder == <<"Action", "Alpha", "Bravo", "Charlie", "Drama">>

KeyRank(s) == CHOOSE i \in 1..Len(KeyOrder) : KeyOrder[i] = s

StrLess(a, b) == KeyRank(a) < KeyRank(b)

\* str.strip() on the raw fields the model uses
Strip(f) == IF f = " " THEN "" ELSE f

\* float(rating_str): <<v>> when it parses, <<>> when it raises ValueError
ParseFloat(s) ==
    CASE s = "4" -> <<4>>
      [] s = "5" -> <<5>>
      [] s = "6" -> <<6>>
      [] OTHER -> <<>>

ValidMovieLines == { <<g, i, n>> : g \in Genres, i \in MovieIds, n \in Names }

BadMovieLines == { <<"">>, <<"Action", "Alpha">>, <<"Action", " ", "Alpha">> }

MovieLines == ValidMovieLines \cup BadMovieLines

ValidRatingLines == { <<n, r, u>> : n \in Names, r \in RatingTexts, u \in Users }

BadRatingLines ==
    { <<"">>, <<"Alpha", "5">>, <<"Alpha", "x", "u1">>, <<"Alpha", "6", "u1">> }

RatingLines == ValidRatingLines \cup BadRatingLines

SeqsUpTo(S, n) == UNION { [1..k -> S] : k \in 0..n }

MovieFiles == SeqsUpTo(MovieLines, MaxMovieLines)

RatingFiles == SeqsUpTo(RatingLines, MaxRatingLines)

\* ---------------------------------------------------------------- state
VARIABLES
    movies_by_name,     \* movie_name -> Movie
    movies_by_genre,    \* genre -> set of movie names
    ratings_by_movie,   \* movie_name -> list of ratings
    user_ratings,       \* user_id -> (movie_name -> rating)
    user_order,         \* insertion order of the keys of user_ratings
    lastOp,             \* the last call made on the store
    lastFile,           \* the file that call read (<<>> when it read none)
    ret                 \* the value that call returned

vars == <<movies_by_name, movies_by_genre, ratings_by_movie, user_ratings,
          user_order, lastOp, lastFile, ret>>

EmptyDict == [x \in {} |-> 0]

\* dict[key] = value
Put(d, k, v) == [x \in DOMAIN d \cup {k} |-> IF x = k THEN v ELSE d[x]]

Movie(genre, movie_id, name) == [genre |-> genre, movie_id |-> movie_id, name |-> name]

\* ---------------------------------------------------------------- loaders
\* The loop body counting a row only when its name is new.
MovieLineStep_CountNew(acc, parts) ==
    IF parts = <<"">> THEN acc
    ELSE IF Len(parts) # 3 THEN acc
    ELSE LET genre == Strip(parts[1])
             movie_id == Strip(parts[2])
             movie_name == Strip(parts[3])
         IN IF genre = "" \/ movie_id = "" \/ movie_name = "" THEN acc
            ELSE [by_name |-> Put(acc.by_name, movie_name, Movie(genre, movie_id, movie_name)),
                  by_genre |-> Put(acc.by_genre, genre,
                                   (IF genre \in DOMAIN acc.by_genre
                                    THEN acc.by_genre[genre] ELSE {}) \cup {movie_name}),
                  count |-> IF movie_name \in DOMAIN acc.by_name
                            THEN acc.count ELSE acc.count + 1]

\* One pass of the loop body of load_movies_file over line `parts`;
\* acc = [by_name, by_genre, count].
MovieLineStep(acc, parts) ==
    IF parts = <<"">> THEN acc
    ELSE IF Len(parts) # 3 THEN acc
    ELSE LET genre == Strip(parts[1])
             movie_id == Strip(parts[2])
             movie_name == Strip(parts[3])
         IN IF genre = "" \/ movie_id = "" \/ movie_name = "" THEN acc
            ELSE [by_name |-> Put(acc.by_name, movie_name, Movie(genre, movie_id, movie_name)),
                  by_genre |-> Put(acc.by_genre, genre,
                                   (IF genre \in DOMAIN acc.by_genre
                                    THEN acc.by_genre[genre] ELSE {}) \cup {movie_name}),
                  count |-> acc.count + 1]

RECURSIVE MovieFold(_, _, _)
MovieFold(acc, file, i) ==
    IF i > Len(file) THEN acc
    ELSE MovieFold(MovieLineStep(acc, file[i]), file, i + 1)

ParseMovies(file) ==
    MovieFold([by_name |-> EmptyDict, by_genre |-> EmptyDict, count |-> 0], file, 1)

\* The loop body keeping the first rating of a (user, movie) pair.
RatingLineStep_FirstWins(acc, parts) ==
    IF parts = <<"">> THEN acc
    ELSE IF Len(parts) # 3 THEN acc
    ELSE LET movie_name == Strip(parts[1])
             rating == ParseFloat(Strip(parts[2]))
             user_id == Strip(parts[3])
         IN IF rating = <<>> THEN acc
            ELSE IF ~(0 <= rating[1] /\ rating[1] <= 5) THEN acc
            ELSE IF user_id \in DOMAIN acc.ur /\ movie_name \in DOMAIN acc.ur[user_id] THEN acc
            ELSE [ur |-> Put(acc.ur, user_id,
                             Put(IF user_id \in DOMAIN acc.ur THEN acc.ur[user_id] ELSE EmptyDict,
                                 movie_name, rating[1])),
                  order |-> IF user_id \in DOMAIN acc.ur THEN acc.order
                            ELSE Append(acc.order, user_id)]

\* One pass of the loop body of load_ratings_file; acc = [ur, order].
RatingLineStep(acc, parts) ==
    IF parts = <<"">> THEN acc
    ELSE IF Len(parts) # 3 THEN acc
    ELSE LET movie_name == Strip(parts[1])
             rating == ParseFloat(Strip(parts[2]))
             user_id == Strip(parts[3])
         IN IF rating = <<>> THEN acc
            ELSE IF ~(0 <= rating[1] /\ rating[1] <= 5) THEN acc
            ELSE [ur |-> Put(acc.ur, user_id,
                             Put(IF user_id \in DOMAIN acc.ur THEN acc.ur[user_id] ELSE EmptyDict,
                                 movie_name, rating[1])),
                  order |-> IF user_id \in DOMAIN acc.ur THEN acc.order
                            ELSE Append(acc.order, user_id)]

RECURSIVE RatingFold(_, _, _)
RatingFold(acc, file, i) ==
    IF i > Len(file) THEN acc
    ELSE RatingFold(RatingLineStep(acc, file[i]), file, i + 1)

ParseRatings(file) == RatingFold([ur |-> EmptyDict, order |-> <<>>], file, 1)

\* The rebuild loop with  ratings_by_movie[movie_name] = [rating]  in place of
\* setdefault(...).append(rating).
RECURSIVE BuildRatingsByMovie_Overwrite(_, _, _, _)
BuildRatingsByMovie_Overwrite(ur, order, known, i) ==
    IF i = 0 THEN EmptyDict
    ELSE LET before == BuildRatingsByMovie_Overwrite(ur, order, known, i - 1)
             per_user == ur[order[i]]
             hit == { m \in DOMAIN per_user : m \in known }
         IN [m \in DOMAIN before \cup hit |->
                IF m \in hit THEN <<per_user[m]>> ELSE before[m]]

\* The rebuild loop without the  `if movie_name in store.movies_by_name`  test.
RECURSIVE BuildRatingsByMovie_NoFilter(_, _, _, _)
BuildRatingsByMovie_NoFilter(ur, order, known, i) ==
    IF i = 0 THEN EmptyDict
    ELSE LET before == BuildRatingsByMovie_NoFilter(ur, order, known, i - 1)
             per_user == ur[order[i]]
             hit == DOMAIN per_user
         IN [m \in DOMAIN before \cup hit |->
                IF m \in hit
                THEN Append(IF m \in DOMAIN before THEN before[m] ELSE <<>>, per_user[m])
                ELSE before[m]]

\* The rebuild loop of load_ratings_file: users in insertion order, each
\* rating of a movie present in `known` appended to that movie's list.
RECURSIVE BuildRatingsByMovie(_, _, _, _)
BuildRatingsByMovie(ur, order, known, i) ==
    IF i = 0 THEN EmptyDict
    ELSE LET before == BuildRatingsByMovie(ur, order, known, i - 1)
             per_user == ur[order[i]]
             hit == { m \in DOMAIN per_user : m \in known }
         IN [m \in DOMAIN before \cup hit |->
                IF m \in hit
                THEN Append(IF m \in DOMAIN before THEN before[m] ELSE <<>>, per_user[m])
                ELSE before[m]]

RECURSIVE SumLens(_, _)
SumLens(ur, S) ==
    IF S = {} THEN 0
    ELSE LET u == CHOOSE x \in S : TRUE
         IN Cardinality(DOMAIN ur[u]) + SumLens(ur, S \ {u})

UniquePairs(ur) == SumLens(ur, DOMAIN ur)

\* ---------------------------------------------------------------- averages
RECURSIVE GCD(_, _)
GCD(a, b) == IF b = 0 THEN a ELSE GCD(b, a % b)

\* the float num/den (den > 0), in lowest terms
Frac(num, den) ==
    LET g == GCD(num, den)
    IN IF g = 0 THEN [num |-> 0, den |-> 1] ELSE [num |-> num \div g, den |-> den \div g]

FracLess(x, y) == x.num * y.den < y.num * x.den

FracAdd(x, y) == Frac(x.num * y.den + y.num * x.den, x.den * y.den)

RECURSIVE SumSeq(_, _)
SumSeq(s, i) == IF i = 0 THEN 0 ELSE s[i] + SumSeq(s, i - 1)

\* statistics.fmean over a non-empty list of ratings
fmean(ratings) == Frac(SumSeq(ratings, Len(ratings)), Len(ratings))

RECURSIVE SumFracs(_, _)
SumFracs(s, i) == IF i = 0 THEN Frac(0, 1) ELSE FracAdd(s[i], SumFracs(s, i - 1))

\* statistics.fmean over a non-empty list of averages
fmeanOfAvgs(avgs) ==
    LET t == SumFracs(avgs, Len(avgs)) IN Frac(t.num, t.den * Len(avgs))

\* store.ratings_by_movie.get(name, [])
RatingsOf(name) == IF name \in DOMAIN ratings_by_movie THEN ratings_by_movie[name] ELSE <<>>

movie_average_rating(movie_name) ==
    LET ratings == RatingsOf(movie_name)
    IN IF ratings = <<>> THEN <<>> ELSE <<fmean(ratings)>>

\* ---------------------------------------------------------------- ranking
\* every order in which the elements of S can be iterated
Orders(S) == { o \in [1..Cardinality(S) -> S] : \A i, j \in DOMAIN o : o[i] = o[j] => i = j }

\* The sort key without its third component: (-average, -count).
RowBefore_NoKey(a, b) ==
    \/ FracLess(b[2], a[2])
    \/ a[2] = b[2] /\ a[3] > b[3]

\* rows are <<key, average, count>>; the sort key is (-average, -count, key)
RowBefore(a, b) ==
    \/ FracLess(b[2], a[2])
    \/ a[2] = b[2] /\ a[3] > b[3]
    \/ a[2] = b[2] /\ a[3] = b[3] /\ StrLess(a[1], b[1])

\* list.sort is stable: a row goes after every row that is not after it
RECURSIVE InsertRow(_, _)
InsertRow(sorted, row) ==
    IF sorted = <<>> THEN <<row>>
    ELSE IF RowBefore(row, Head(sorted)) THEN <<row>> \o sorted
    ELSE <<Head(sorted)>> \o InsertRow(Tail(sorted), row)

RECURSIVE SortRows(_, _)
SortRows(items, i) ==
    IF i = 0 THEN <<>> ELSE InsertRow(SortRows(items, i - 1), items[i])

\* items[:n] if n is not None else items
Slice(items, n) ==
    IF n = <<>> THEN items
    ELSE IF n[1] >= 0
         THEN SubSeq(items, 1, IF n[1] < Len(items) THEN n[1] ELSE Len(items))
         ELSE SubSeq(items, 1, Len(items) + n[1])

\* the loop of rank_movies_by_average over the list `candidates`
RECURSIVE MovieItems(_, _)
MovieItems(candidates, i) ==
    IF i = 0 THEN <<>>
    ELSE LET name == candidates[i]
             ratings == RatingsOf(name)
             before == MovieItems(candidates, i - 1)
         IN IF ratings = <<>> THEN before
            ELSE Append(before, <<name, fmean(ratings), Len(ratings)>>)

\* rank_movies_by_average(store, movie_names=candidates, n=n)
RankCandidates(candidates, n) ==
    LET items == MovieItems(candidates, Len(candidates))
    IN Slice(SortRows(items, Len(items)), n)

\* rank_movies_by_average(store, n=n): candidates are the keys of ratings_by_movie
rank_movies_by_average(n) ==
    { RankCandidates(c, n) : c \in Orders(DOMAIN ratings_by_movie) }

rank_movies_in_genre(genre, n) ==
    IF genre \notin DOMAIN movies_by_genre \/ movies_by_genre[genre] = {}
    THEN { <<>> }
    ELSE { RankCandidates(c, n) : c \in Orders(movies_by_genre[genre]) }

\* The inner loop scoring an unrated movie as 0 instead of skipping it.
RECURSIVE GenreAvgs_ZeroForUnrated(_, _)
GenreAvgs_ZeroForUnrated(movie_names, i) ==
    IF i = 0 THEN <<>>
    ELSE LET avg == movie_average_rating(movie_names[i])
             before == GenreAvgs_ZeroForUnrated(movie_names, i - 1)
         IN Append(before, IF avg = <<>> THEN Frac(0, 1) ELSE avg[1])

\* the inner loop of rank_genres_by_popularity over one genre's movie names
RECURSIVE GenreAvgs(_, _)
GenreAvgs(movie_names, i) ==
    IF i = 0 THEN <<>>
    ELSE LET avg == movie_average_rating(movie_names[i])
             before == GenreAvgs(movie_names, i - 1)
         IN IF avg = <<>> THEN before ELSE Append(before, avg[1])

\* the outer loop, genres iterated in the order `genres`
RECURSIVE GenreResults(_, _)
GenreResults(genres, i) ==
    IF i = 0 THEN <<>>
    ELSE LET genre == genres[i]
             movie_names == CHOOSE o \in Orders(movies_by_genre[genre]) : TRUE
             avgs == GenreAvgs(movie_names, Len(movie_names))
             before == GenreResults(genres, i - 1)
         IN IF avgs = <<>> THEN before
            ELSE Append(before, <<genre, fmeanOfAvgs(avgs), Len(avgs)>>)

rank_genres_by_popularity(n) ==
    { LET results == GenreResults(g, Len(g))
      IN Slice(SortRows(results, Len(results)), n) : g \in Orders(DOMAIN movies_by_genre) }

\* ---------------------------------------------------------------- recommender
\* by_genre lists that take every rating of the user's known movies, whatever
\* the movie's genre.
UserGenreRatings_AnyGenre(per_user, genre) ==
    LET names == { m \in DOMAIN per_user : m \in DOMAIN movies_by_name }
        o == CHOOSE x \in Orders(names) : TRUE
    IN [i \in 1..Len(o) |-> per_user[o[i]]]

\* the ratings user `per_user` gave to movies of `genre`, in some order
UserGenreRatings(per_user, genre) ==
    LET names == { m \in DOMAIN per_user :
                      m \in DOMAIN movies_by_name /\ movies_by_name[m].genre = genre }
        o == CHOOSE x \in Orders(names) : TRUE
    IN [i \in 1..Len(o) |-> per_user[o[i]]]

user_top_genre(user_id) ==
    IF user_id \notin DOMAIN user_ratings \/ DOMAIN user_ratings[user_id] = {}
    THEN { <<>> }
    ELSE LET per_user == user_ratings[user_id]
             by_genre == { movies_by_name[m].genre :
                              m \in DOMAIN per_user \cap DOMAIN movies_by_name }
         IN IF by_genre = {} THEN { <<>> }
            ELSE { LET rows == [i \in 1..Len(g) |->
                                   LET ratings == UserGenreRatings(per_user, g[i])
                                   IN <<g[i], fmean(ratings), Len(ratings)>>]
                   IN <<SortRows(rows, Len(rows))[1]>> : g \in Orders(by_genre) }

\* The loop with  len(recs) > k  in place of  len(recs) >= k.
RECURSIVE Collect_OffByOne(_, _, _, _, _, _)
Collect_OffByOne(ranked, rated, genre, k, i, recs) ==
    IF i > Len(ranked) THEN recs
    ELSE IF ranked[i][1] \in rated THEN Collect_OffByOne(ranked, rated, genre, k, i + 1, recs)
    ELSE LET recs2 == Append(recs, <<ranked[i][1], ranked[i][2], ranked[i][3], genre>>)
         IN IF Len(recs2) > k THEN recs2
            ELSE Collect_OffByOne(ranked, rated, genre, k, i + 1, recs2)

\* The loop without the  `if name in rated: continue`  test.
RECURSIVE Collect_NoRatedTest(_, _, _, _, _, _)
Collect_NoRatedTest(ranked, rated, genre, k, i, recs) ==
    IF i > Len(ranked) THEN recs
    ELSE LET recs2 == Append(recs, <<ranked[i][1], ranked[i][2], ranked[i][3], genre>>)
         IN IF Len(recs2) >= k THEN recs2
            ELSE Collect_NoRatedTest(ranked, rated, genre, k, i + 1, recs2)

\* the loop of recommend_for_user over `ranked`, from position i with `recs` collected
RECURSIVE Collect(_, _, _, _, _, _)
Collect(ranked, rated, genre, k, i, recs) ==
    IF i > Len(ranked) THEN recs
    ELSE IF ranked[i][1] \in rated THEN Collect(ranked, rated, genre, k, i + 1, recs)
    ELSE LET recs2 == Append(recs, <<ranked[i][1], ranked[i][2], ranked[i][3], genre>>)
         IN IF Len(recs2) >= k THEN recs2
            ELSE Collect(ranked, rated, genre, k, i + 1, recs2)

recommend_for_user(user_id, k) ==
    UNION { IF top = <<>> THEN { <<>> }
            ELSE LET genre == top[1][1]
                     rated == IF user_id \in DOMAIN user_ratings
                              THEN DOMAIN user_ratings[user_id] ELSE {}
                 IN { Collect(ranked, rated, genre, k, 1, <<>>) :
                         ranked \in rank_movies_in_genre(genre, <<>>) }
            : top \in user_top_genre(user_id) }

Init ==
    /\ movies_by_name = EmptyDict
    /\ movies_by_genre = EmptyDict
    /\ ratings_by_movie = EmptyDict
    /\ user_ratings = EmptyDict
    /\ user_order = <<>>
    /\ lastOp = "init"
    /\ lastFile = <<>>
    /\ ret = 0

\* load_movies_file without the two clear() calls: the rows are added to
\* what the store already holds.
load_movies_file_NoClear(file) ==
    \E p \in {MovieFold([by_name |-> movies_by_name, by_genre |-> movies_by_genre,
                           count |-> 0], file, 1)} :
       /\ movies_by_name' = p.by_name
       /\ movies_by_genre' = p.by_genre
       /\ ret' = p.count
       /\ lastOp' = "load_movies_file"
       /\ lastFile' = file
       /\ UNCHANGED <<ratings_by_movie, user_ratings, user_order>>

load_movies_file(file) ==
    \E p \in {ParseMovies(file)} :
       /\ movies_by_name' = p.by_name
       /\ movies_by_genre' = p.by_genre
       /\ ret' = p.count
       /\ lastOp' = "load_movies_file"
       /\ lastFile' = file
       /\ UNCHANGED <<ratings_by_movie, user_ratings, user_order>>

load_ratings_file(file) ==
    \E p \in {ParseRatings(file)} :
       /\ user_ratings' = p.ur
       /\ user_order' = p.order
       /\ ratings_by_movie' =
              BuildRatingsByMovie(p.ur, p.order, DOMAIN movies_by_name, Len(p.order))
       /\ ret' = UniquePairs(p.ur)
       /\ lastOp' = "load_ratings_file"
       /\ lastFile' = file
       /\ UNCHANGED <<movies_by_name, movies_by_genre>>

\* open() raises before any line is read: the clear() calls above it have
\* already run, and nothing is returned.
load_movies_file_missing ==
    /\ movies_by_name' = EmptyDict
    /\ movies_by_genre' = EmptyDict
    /\ lastOp' = "load_movies_file_error"
    /\ lastFile' = <<>>
    /\ ret' = 0
    /\ UNCHANGED <<ratings_by_movie, user_ratings, user_order>>

load_ratings_file_missing ==
    /\ ratings_by_movie' = EmptyDict
    /\ user_ratings' = EmptyDict
    /\ user_order' = <<>>
    /\ lastOp' = "load_ratings_file_error"
    /\ lastFile' = <<>>
    /\ ret' = 0
    /\ UNCHANGED <<movies_by_name, movies_by_genre>>

clear ==
    /\ movies_by_name' = EmptyDict
    /\ movies_by_genre' = EmptyDict
    /\ ratings_by_movie' = EmptyDict
    /\ user_ratings' = EmptyDict
    /\ user_order' = <<>>
    /\ lastOp' = "clear"
    /\ lastFile' = <<>>
    /\ ret' = 0

LoadMovies == \E file \in MovieFiles : load_movies_file(file)

LoadRatings == \E file \in RatingFiles : load_ratings_file(file)

Next ==
    \/ LoadMovies
    \/ LoadRatings
    \/ load_movies_file_missing
    \/ load_ratings_file_missing
    \/ clear

Spec == Init /\ [][Next]_vars


\* The same loaders over longer ratings files (valid rows only) and short
\* movies files: re-rated pairs with other rows in between.
MaxLWWLines == 3

MaxLWWMovieLines == 1

LWWRatingFiles == SeqsUpTo(ValidRatingLines, MaxLWWLines)

LWWMovieFiles == SeqsUpTo(ValidMovieLines, MaxLWWMovieLines)

LoadMoviesLWW == \E file \in LWWMovieFiles : load_movies_file(file)

LoadRatingsLWW == \E file \in LWWRatingFiles : load_ratings_file(file)

NextLWW ==
    \/ LoadMoviesLWW
    \/ LoadRatingsLWW

SpecLWW == Init /\ [][NextLWW]_vars

\* The same loaders over three movies: files of up to three valid lines, the
\* movies all in one genre or the third in a genre of its own, every rating
\* 4 but u1's 5 for the third, so that scores, rating counts and names each
\* decide some ranking.
MaxRankLines == 3

RankNames == {"Alpha", "Bravo", "Charlie"}

RankMovieLines ==
    { <<"Action", "m1", n>> : n \in RankNames } \cup { <<"Drama", "m1", "Charlie">> }

RankRatingLines ==
    { <<n, "4", "u2">> : n \in RankNames }
        \cup { <<"Alpha", "4", "u1">>, <<"Bravo", "4", "u1">>, <<"Charlie", "5", "u1">> }

RankMovieFiles == SeqsUpTo(RankMovieLines, MaxRankLines)

RankRatingFiles == SeqsUpTo(RankRatingLines, MaxRankLines)

LoadMoviesRank == \E file \in RankMovieFiles : load_movies_file(file)

LoadRatingsRank == \E file \in RankRatingFiles : load_ratings_file(file)

NextRank ==
    \/ LoadMoviesRank
    \/ LoadRatingsRank

SpecRank == Init /\ [][NextRank]_vars

\* ================================================================ claims
\* the multiset of the elements of a list
BagOfSeq(s) ==
    [v \in { s[i] : i \in DOMAIN s } |-> Cardinality({ i \in DOMAIN s : s[i] = v })]

\* the users whose history holds a rating of `name`
RatersOf(name) == { u \in DOMAIN user_ratings : name \in DOMAIN user_ratings[u] }

\* the multiset { user_ratings[u][name] : u has rated name }
BagOfUserRatings(name) ==
    [v \in { user_ratings[u][name] : u \in RatersOf(name) } |->
        Cardinality({ u \in RatersOf(name) : user_ratings[u][name] = v })]

RatingsDerived ==
    /\ DOMAIN ratings_by_movie \subseteq Names
    /\ \A name \in Names :
          IF name \in DOMAIN movies_by_name /\ RatersOf(name) # {}
          THEN /\ name \in DOMAIN ratings_by_movie
               /\ BagOfSeq(ratings_by_movie[name]) = BagOfUserRatings(name)
          ELSE name \notin DOMAIN ratings_by_movie

\* C1 as stated: in every reachable state ratings_by_movie[name] is exactly
\* the multiset of the users' ratings of name, for the names in
\* movies_by_name, and has no other entry.
C1_Original == RatingsDerived

\* C1, amended: that holds in every state whose most recent call is not a
\* movies load (a movies load does not re-derive ratings_by_movie).
C1_DerivedAfterRatingsLoad ==
    lastOp \notin {"load_movies_file", "load_movies_file_error"} => RatingsDerived

\* a ratings load that kept one rated movie in the index and one out of it
C1_Witness ==
    /\ lastOp = "load_ratings_file"
    /\ \E a, b \in Names :
          /\ a \in DOMAIN movies_by_name /\ RatersOf(a) # {}
          /\ b \notin DOMAIN movies_by_name /\ RatersOf(b) # {}

\* C2 as stated: after a movies load, name is in movies_by_genre[g] exactly
\* when movies_by_name[name].genre = g.
C2_Original ==
    lastOp = "load_movies_file" =>
        \A g \in Genres, name \in Names :
            (g \in DOMAIN movies_by_genre /\ name \in movies_by_genre[g])
            <=> (name \in DOMAIN movies_by_name /\ movies_by_name[name].genre = g)

\* the arguments the queries are tried with
Limits == { <<n>> : n \in -2..3 }

NoLimit == <<>>

Ks == -1..3

QueryGenres == Genres \cup {"Comedy"}

QueryUsers == Users \cup {"u9"}

Prefix(items, n) == SubSeq(items, 1, IF n < Len(items) THEN n ELSE Len(items))

\* what C3 asks of the results `limited` (limit n) given the results `full` (no limit)
LimitRule(limited, full, n) ==
    \A r \in limited :
        IF n[1] <= 0 THEN r = <<>> ELSE \E f \in full : r = Prefix(f, n[1])

\* C3 as stated: for the three rankings a limit n <= 0 yields the empty
\* list and a limit n > 0 yields the first min(n, length) rows of the full order.
C3_Original ==
    \A n \in Limits :
        /\ LimitRule(rank_movies_by_average(n), rank_movies_by_average(NoLimit), n)
        /\ LimitRule(rank_genres_by_popularity(n), rank_genres_by_popularity(NoLimit), n)
        /\ \A g \in QueryGenres :
              LimitRule(rank_movies_in_genre(g, n), rank_movies_in_genre(g, NoLimit), n)

\* C4 as stated: recommend_for_user(user, k) returns at most k entries, for
\* every k (none at all when k <= 0).
C4_Original ==
    \A u \in QueryUsers, k \in Ks :
        \A recs \in recommend_for_user(u, k) : Len(recs) <= (IF k > 0 THEN k ELSE 0)

\* the movies user u has rated
RatedBy(u) == IF u \in DOMAIN user_ratings THEN DOMAIN user_ratings[u] ELSE {}

\* the movies filed under genre g that have at least one rating in the index
RatedInGenre(g) ==
    IF g \in DOMAIN movies_by_genre
    THEN { m \in movies_by_genre[g] : m \in DOMAIN ratings_by_movie /\ ratings_by_movie[m] # <<>> }
    ELSE {}

\* C5: no movie recommend_for_user returns is one the user has rated, and
\* the result is empty when the user has rated every rated movie of
\* their top genre.
C5_NeverRecommendsRated ==
    \A u \in QueryUsers, k \in Ks :
        /\ \A recs \in recommend_for_user(u, k) :
              \A i \in DOMAIN recs : recs[i][1] \notin RatedBy(u)
        /\ \A top \in user_top_genre(u) :
              (top # <<>> /\ RatedInGenre(top[1][1]) \subseteq RatedBy(u))
              => recommend_for_user(u, k) = { <<>> }

\* a user whose top genre holds a rated movie they rated and one they did
\* not: the first is skipped, the second recommended
C5_Witness ==
    \E u \in Users : \E top \in user_top_genre(u) :
        /\ top # <<>>
        /\ RatedInGenre(top[1][1]) \cap RatedBy(u) # {}
        /\ \E recs \in recommend_for_user(u, 3) : Len(recs) = 1

\* C6 as stated: every movie rank_movies_in_genre(genre, n) returns is in
\* movies_by_name with that genre, and a genre with no movies yields [].
C6_Original ==
    \A g \in QueryGenres, n \in Limits \cup {NoLimit} :
        \A r \in rank_movies_in_genre(g, n) :
            /\ \A i \in DOMAIN r :
                  /\ r[i][1] \in DOMAIN movies_by_name
                  /\ movies_by_name[r[i][1]].genre = g
            /\ (g \notin DOMAIN movies_by_genre => r = <<>>)

RECURSIVE ProdLens(_)
ProdLens(S) ==
    IF S = {} THEN 1
    ELSE LET m == CHOOSE x \in S : TRUE
         IN Len(ratings_by_movie[m]) * ProdLens(S \ {m})

\* L times the sum of the mean ratings of the movies in S (L a multiple of
\* every rating count)
RECURSIVE SumOfMeansTimes(_, _)
SumOfMeansTimes(S, L) ==
    IF S = {} THEN 0
    ELSE LET m == CHOOSE x \in S : TRUE
             r == ratings_by_movie[m]
         IN SumSeq(r, Len(r)) * (L \div Len(r)) + SumOfMeansTimes(S \ {m}, L)

\* score is the mean of the mean ratings of the movies in S
IsMeanOfMeans(score, S) ==
    LET L == ProdLens(S)
    IN score.num * Cardinality(S) * L = score.den * SumOfMeansTimes(S, L)

\* C7: every row (genre, score, count) of rank_genres_by_popularity has
\* count >= 1, count = the number of movies of movies_by_genre[genre] with a
\* rating in ratings_by_movie, and score = the mean of those movies' means.
C7_GenreRows ==
    \A n \in Limits \cup {NoLimit} :
        \A r \in rank_genres_by_popularity(n) :
            \A i \in DOMAIN r :
                /\ r[i][3] >= 1
                /\ r[i][3] = Cardinality(RatedInGenre(r[i][1]))
                /\ IsMeanOfMeans(r[i][2], RatedInGenre(r[i][1]))

\* a ranked genre holding a rated and an unrated movie
C7_Witness ==
    \E r \in rank_genres_by_popularity(NoLimit) :
        \E i \in DOMAIN r :
            /\ r[i][3] = 1
            /\ Cardinality(movies_by_genre[r[i][1]]) = 2

\* ---- what a file holds, read off its lines
AcceptedMovieLine(l) == Len(l) = 3 /\ \A i \in 1..3 : l[i] \notin {"", " "}

AcceptedRatingLine(l) ==
    /\ Len(l) = 3
    /\ ParseFloat(l[2]) # <<>>
    /\ ParseFloat(l[2])[1] \in 0..5

Max(S) == CHOOSE x \in S : \A y \in S : y <= x

\* the (user, movie) pairs with an accepted row in the file
PairsIn(file) == { <<file[i][3], file[i][1]>> : i \in { j \in DOMAIN file : AcceptedRatingLine(file[j]) } }

\* the positions of the accepted rows of pair (u, m)
RowsOf(file, u, m) ==
    { i \in DOMAIN file : AcceptedRatingLine(file[i]) /\ file[i][3] = u /\ file[i][1] = m }

LastValueOf(file, u, m) == ParseFloat(file[Max(RowsOf(file, u, m))][2])[1]

\* C8 as stated: a pair with several accepted rows keeps the value of its
\* last row, contributes exactly one value to ratings_by_movie[movie], and
\* is counted once in the returned total.
C8_Original ==
    lastOp = "load_ratings_file" =>
        /\ ret = Cardinality(PairsIn(lastFile))
        /\ \A p \in PairsIn(lastFile) :
              Cardinality(RowsOf(lastFile, p[1], p[2])) >= 2 =>
                  /\ p[1] \in DOMAIN user_ratings
                  /\ p[2] \in DOMAIN user_ratings[p[1]]
                  /\ user_ratings[p[1]][p[2]] = LastValueOf(lastFile, p[1], p[2])
                  /\ BagOfSeq(RatingsOf(p[2])) = BagOfUserRatings(p[2])

\* C8, amended: ... contributes exactly one value to ratings_by_movie[movie]
\* when the movie is in movies_by_name, and none when it is not.
C8_LastWriteWins ==
    lastOp = "load_ratings_file" =>
        /\ ret = Cardinality(PairsIn(lastFile))
        /\ \A p \in PairsIn(lastFile) :
              Cardinality(RowsOf(lastFile, p[1], p[2])) >= 2 =>
                  /\ p[1] \in DOMAIN user_ratings
                  /\ p[2] \in DOMAIN user_ratings[p[1]]
                  /\ user_ratings[p[1]][p[2]] = LastValueOf(lastFile, p[1], p[2])
                  /\ IF p[2] \in DOMAIN movies_by_name
                     THEN BagOfSeq(RatingsOf(p[2])) = BagOfUserRatings(p[2])
                     ELSE p[2] \notin DOMAIN ratings_by_movie

\* a known movie re-rated by the same user with another value, a row of
\* another pair in between
C8_Witness ==
    /\ lastOp = "load_ratings_file"
    /\ Len(lastFile) = 3
    /\ lastFile[1][1] = lastFile[3][1] /\ lastFile[1][3] = lastFile[3][3]
    /\ lastFile[1][2] # lastFile[3][2]
    /\ <<lastFile[2][3], lastFile[2][1]>> # <<lastFile[1][3], lastFile[1][1]>>
    /\ lastFile[1][1] \in DOMAIN movies_by_name

MoviesLoadLast == lastOp \in {"load_movies_file", "load_movies_file_error"}

\* every ranked movie is in movies_by_name
OnlyKnownMovies(results) ==
    \A r \in results : \A i \in DOMAIN r : r[i][1] \in DOMAIN movies_by_name

\* a ratings load keeps and counts the pairs whose movie is not in movies_by_name
UnknownKeptAndCounted ==
    lastOp = "load_ratings_file" =>
        /\ ret = Cardinality(PairsIn(lastFile))
        /\ \A p \in PairsIn(lastFile) :
              p[2] \notin DOMAIN movies_by_name =>
                  /\ p[1] \in DOMAIN user_ratings
                  /\ p[2] \in DOMAIN user_ratings[p[1]]
                  /\ p[2] \notin DOMAIN ratings_by_movie

\* no movie outside movies_by_name is ranked in a genre or enters a genre row
UnknownNotInGenreRankings ==
    \A n \in Limits \cup {NoLimit} :
        /\ \A g \in QueryGenres : OnlyKnownMovies(rank_movies_in_genre(g, n))
        /\ \A r \in rank_genres_by_popularity(n) :
              \A i \in DOMAIN r :
                  LET known == RatedInGenre(r[i][1]) \cap DOMAIN movies_by_name
                  IN /\ r[i][3] = Cardinality(known)
                     /\ IsMeanOfMeans(r[i][2], known)

\* C9 as stated: a rating of a movie outside movies_by_name is kept and
\* counted, and in every reachable state no such movie is in the result of
\* rank_movies_by_average or rank_movies_in_genre or in a genre row.
C9_Original ==
    /\ UnknownKeptAndCounted
    /\ UnknownNotInGenreRankings
    /\ \A n \in Limits \cup {NoLimit} : OnlyKnownMovies(rank_movies_by_average(n))

\* C9, amended: ... no such movie is in the result of rank_movies_in_genre
\* or in a genre row in any reachable state, nor in the result of
\* rank_movies_by_average unless the most recent call is a movies load
\* (which leaves ratings_by_movie as the last ratings load built it).
C9_UnknownInvisible ==
    /\ UnknownKeptAndCounted
    /\ UnknownNotInGenreRankings
    /\ ~MoviesLoadLast =>
          \A n \in Limits \cup {NoLimit} : OnlyKnownMovies(rank_movies_by_average(n))

\* a ratings load with one rated movie in movies_by_name (ranked) and one
\* outside it (kept in the user's history)
C9_Witness ==
    /\ lastOp = "load_ratings_file"
    /\ \E u \in Users : \E m \in RatedBy(u) : m \notin DOMAIN movies_by_name
    /\ \E r \in rank_movies_by_average(NoLimit) : Len(r) = 1

\* ---- what the lines of a movies / ratings file amount to
AcceptedMovieRows(file) == { i \in DOMAIN file : AcceptedMovieLine(file[i]) }

MoviesByNameOf(file) ==
    [name \in { file[i][3] : i \in AcceptedMovieRows(file) } |->
        LET last == Max({ i \in AcceptedMovieRows(file) : file[i][3] = name })
        IN Movie(file[last][1], file[last][2], name)]

MoviesByGenreOf(file) ==
    [g \in { file[i][1] : i \in AcceptedMovieRows(file) } |->
        { file[i][3] : i \in { j \in AcceptedMovieRows(file) : file[j][1] = g } }]

UserRatingsOf(file) ==
    [u \in { p[1] : p \in PairsIn(file) } |->
        [m \in { p[2] : p \in { q \in PairsIn(file) : q[1] = u } } |->
            LastValueOf(file, u, m)]]

\* the state left by a load is the content of the file it read
LoadedContent ==
    /\ lastOp = "load_movies_file" =>
          /\ movies_by_name = MoviesByNameOf(lastFile)
          /\ movies_by_genre = MoviesByGenreOf(lastFile)
    /\ lastOp = "load_ratings_file" =>
          /\ user_ratings = UserRatingsOf(lastFile)
          /\ RatingsDerived
          /\ (movies_by_name = EmptyDict => ratings_by_movie = EmptyDict)

\* a load leaves the other load's indexes alone
LoadFrame ==
    /\ lastOp' = "load_movies_file" => UNCHANGED <<ratings_by_movie, user_ratings>>
    /\ lastOp' = "load_ratings_file" => UNCHANGED <<movies_by_name, movies_by_genre>>
    /\ (ratings_by_movie = EmptyDict /\ lastOp' # "load_ratings_file")
          => ratings_by_movie' = EmptyDict

\* C10: a movies load replaces movies_by_name/movies_by_genre with the
\* content of its file and leaves ratings_by_movie/user_ratings unchanged; a
\* ratings load replaces ratings_by_movie/user_ratings with the content
\* derived from its file and leaves the movie indexes unchanged; ratings
\* loaded while movies_by_name is empty give an empty ratings_by_movie,
\* which stays empty until ratings are loaded again.
C10_IndependentLoads == [](LoadedContent) /\ [][LoadFrame]_vars

\* movies loaded over an earlier movies load, after ratings were loaded into
\* an empty movie index: the rated movie is now known and still unranked
C10_Witness ==
    /\ lastOp = "load_movies_file"
    /\ \E u \in Users : \E m \in RatedBy(u) : m \in DOMAIN movies_by_name
    /\ ratings_by_movie = EmptyDict
    /\ Cardinality(DOMAIN movies_by_name) = 1

\* row a comes strictly before row b: higher score, else higher weight,
\* else smaller key
StrictlyBefore(a, b) ==
    \/ a[2].num * b[2].den > b[2].num * a[2].den
    \/ /\ a[2].num * b[2].den = b[2].num * a[2].den
       /\ a[3] > b[3]
    \/ /\ a[2].num * b[2].den = b[2].num * a[2].den
       /\ a[3] = b[3]
       /\ KeyRank(a[1]) < KeyRank(b[1])

\* one result whatever the iteration order, and that result in ranking order
OneSortedResult(results) ==
    /\ Cardinality(results) = 1
    /\ \A r \in results :
          \A i, j \in DOMAIN r : i < j => StrictlyBefore(r[i], r[j])

\* C11: the rankings of rank_movies_by_average, rank_movies_in_genre and
\* rank_genres_by_popularity are in order of score descending, then weight
\* descending, then key ascending, and are the same for every order in
\* which the rows are produced.
C11_RankingOrder ==
    \A n \in {NoLimit, <<1>>, <<2>>} :
        /\ OneSortedResult(rank_movies_by_average(n))
        /\ OneSortedResult(rank_genres_by_popularity(n))
        /\ \A g \in QueryGenres : OneSortedResult(rank_movies_in_genre(g, n))

\* three ranked movies: the score puts the first ahead, the name orders the
\* other two (same score, same rating count)
C11_Witness ==
    \E r \in rank_movies_by_average(NoLimit) :
        /\ Len(r) = 3
        /\ r[1][2] # r[2][2]
        /\ r[2][2] = r[3][2] /\ r[2][3] = r[3][3]

\* the known movies of genre g that user u has rated
UserMoviesIn(u, g) ==
    { m \in RatedBy(u) : m \in DOMAIN movies_by_name /\ movies_by_name[m].genre = g }

RECURSIVE SumOfUserRatings(_, _)
SumOfUserRatings(u, S) ==
    IF S = {} THEN 0
    ELSE LET m == CHOOSE x \in S : TRUE
         IN user_ratings[u][m] + SumOfUserRatings(u, S \ {m})

\* genre g is ahead of genre h for user u: higher mean, else more movies,
\* else smaller name
AheadFor(u, g, h) ==
    LET sg == SumOfUserRatings(u, UserMoviesIn(u, g))
        cg == Cardinality(UserMoviesIn(u, g))
        sh == SumOfUserRatings(u, UserMoviesIn(u, h))
        ch == Cardinality(UserMoviesIn(u, h))
    IN \/ sg * ch > sh * cg
       \/ sg * ch = sh * cg /\ cg > ch
       \/ sg * ch = sh * cg /\ cg = ch /\ KeyRank(g) < KeyRank(h)

\* C12: user_top_genre(user) is the row (genre, mean of the user's ratings
\* of the known movies of that genre, their number) that is first under
\* mean descending, count descending, genre ascending; it is None exactly
\* when the user has no rating of a movie in movies_by_name.
C12_UserTopGenre ==
    \A u \in QueryUsers :
        LET gs == { g \in Genres : UserMoviesIn(u, g) # {} }
        IN IF gs = {}
           THEN user_top_genre(u) = { <<>> }
           ELSE /\ Cardinality(user_top_genre(u)) = 1
                /\ \A top \in user_top_genre(u) :
                      /\ Len(top) = 1
                      /\ top[1][1] \in gs
                      /\ top[1][3] = Cardinality(UserMoviesIn(u, top[1][1]))
                      /\ top[1][2].num * top[1][3]
                            = top[1][2].den * SumOfUserRatings(u, UserMoviesIn(u, top[1][1]))
                      /\ \A h \in gs \ {top[1][1]} : AheadFor(u, top[1][1], h)

\* a user whose top genre holds one movie they rated, ahead of a genre
\* holding two (the mean decides, not the count)
C12_Witness ==
    \E u \in Users : \E top \in user_top_genre(u) :
        /\ top # <<>>
        /\ top[1][3] = 1
        /\ \E h \in Genres : Cardinality(UserMoviesIn(u, h)) = 2

\* C13: load_movies_file returns the number of accepted rows, a row that
\* overwrites an earlier name included: the count is >= the number of keys
\* of movies_by_name, equal exactly when no accepted name repeats, and the
\* malformed rows change neither the count nor the store.
C13_AcceptedRowCount ==
    lastOp = "load_movies_file" =>
        LET rows == AcceptedMovieRows(lastFile)
            clean == SelectSeq(lastFile, AcceptedMovieLine)
        IN /\ ret = Cardinality(rows)
           /\ ret >= Cardinality(DOMAIN movies_by_name)
           /\ (ret = Cardinality(DOMAIN movies_by_name))
                 <=> (\A i, j \in rows : lastFile[i][3] = lastFile[j][3] => i = j)
           /\ ret = Len(clean)
           /\ movies_by_name = MoviesByNameOf(clean)
           /\ movies_by_genre = MoviesByGenreOf(clean)

\* two accepted rows of one name: two rows counted, one movie kept
C13_Witness ==
    /\ lastOp = "load_movies_file"
    /\ ret = 2
    /\ Cardinality(DOMAIN movies_by_name) = 1

\* the rows of `ranked` that user u has not rated, each tagged with genre g
UnratedTagged(ranked, u, g) ==
    LET Unrated(row) == row[1] \notin RatedBy(u)
        kept == SelectSeq(ranked, Unrated)
    IN [i \in 1..Len(kept) |-> <<kept[i][1], kept[i][2], kept[i][3], g>>]

\* C14: for k >= 1, recommend_for_user(user, k) is the first k rows of the
\* unlimited rank_movies_in_genre of the user's top genre with the movies
\* the user has rated removed, each tagged with that genre; it is empty
\* when user_top_genre is None.
C14_RecommendOrder ==
    \A u \in QueryUsers, k \in 1..3 :
        recommend_for_user(u, k) =
            UNION { IF top = <<>> THEN { <<>> }
                    ELSE { Prefix(UnratedTagged(ranked, u, top[1][1]), k) :
                              ranked \in rank_movies_in_genre(top[1][1], NoLimit) }
                    : top \in user_top_genre(u) }

\* a user with one rated movie and two unrated ranked movies in their top
\* genre: k = 1 cuts the two down to the first
C14_Witness ==
    \E u \in Users :
        /\ \E top \in user_top_genre(u) :
              top # <<>> /\ RatedInGenre(top[1][1]) \cap RatedBy(u) # {}
        /\ \E recs \in recommend_for_user(u, 3) : Len(recs) = 2
        /\ \E recs \in recommend_for_user(u, 1) : Len(recs) = 1

\* a load whose file cannot be opened leaves the four indexes as they were
FailedLoadFrame ==
    lastOp' \in {"load_movies_file_error", "load_ratings_file_error"}
        => UNCHANGED <<movies_by_name, movies_by_genre, ratings_by_movie, user_ratings>>

\* C15 as stated: when load_movies_file or load_ratings_file fails to open
\* its file, the failure reaches the caller and the four indexes are
\* exactly as they were before the call.
C15_Original == [][FailedLoadFrame]_vars

====
